---- MODULE Spec2Model ----
(***************************************************************************)
(* A model of the marching-cubes voxel grid (src/scripts/VoxelGrid.ts),    *)
(* its mesh disposal helper (src/scripts/utils.ts) and the settings-panel  *)
(* driver (src/scripts/index.ts).                                          *)
(*                                                                         *)
(* JavaScript numbers are modelled as exact rationals [n, d], so that a    *)
(* fractional resolution, array length or index behaves as in the code:    *)
(* Array.from truncates a fractional length, Array(n) rejects it, and a    *)
(* fractional or out-of-range index reads undefined.  Rounding of IEEE     *)
(* doubles is not modelled.                                                *)
(***************************************************************************)
EXTENDS Integers, Sequences, FiniteSets, TLC

VARIABLES
  resolution,    \* VoxelGrid.resolution, a rational
  size,          \* VoxelGrid.size, [x, y, z]
  isovalue,      \* VoxelGrid.isovalue
  grid,          \* VoxelGrid.grid, 0-based nested arrays
  meshVertexes,  \* VoxelGrid.meshVertexes, a sequence of Vector3
  mesh,          \* VoxelGrid.mesh: undefined or the Mesh object
  scene,         \* the ids of the grid meshes among the Scene's children
  pc,            \* position of the running handler ("idle" between handlers)
  error,         \* the exception that ended the most recent handler, if any
  renders,       \* number of render calls started so far
  frames         \* number of animation frames that moved the current mesh

vars == <<resolution, size, isovalue, grid, meshVertexes, mesh, scene, pc, error, renders, frames>>

----------------------------------------------------------------------------
(* Numbers *)

Abs(a) == IF a < 0 THEN -a ELSE a

RECURSIVE Gcd(_, _)
Gcd(a, b) == IF b = 0 THEN a ELSE Gcd(b, a % b)

\* The number n/d in lowest terms, d > 0; d = 0 stands for the non-finite
\* results of a division by zero (+-Infinity, NaN).
Rat(n, d) ==
  IF d = 0
    THEN [n |-> IF n > 0 THEN 1 ELSE IF n < 0 THEN -1 ELSE 0, d |-> 0]
    ELSE LET g == Gcd(Abs(n), Abs(d))
             s == IF d < 0 THEN -1 ELSE 1
         IN  [n |-> (s * n) \div g, d |-> (s * d) \div g]

Num(i) == [n |-> i, d |-> 1]
Plus(a, b) == Rat(a.n * b.d + b.n * a.d, a.d * b.d)
Minus(a, b) == Rat(a.n * b.d - b.n * a.d, a.d * b.d)
Times(a, b) == Rat(a.n * b.n, a.d * b.d)
Over(a, b) == Rat(a.n * b.d, a.d * b.n)
Less(a, b) == a.n * b.d < b.n * a.d
IsInteger(a) == a.d = 1
Floor(a) == a.n \div a.d
Ceil(a) == -((-a.n) \div a.d)
Half == Rat(1, 2)

\* ToLength of the length property handed to Array.from: truncated, never negative.
ToLength(a) == IF a.n <= 0 THEN 0 ELSE Floor(a)

\* Array(n) accepts only an integer n >= 0 as its length (RangeError otherwise).
ValidArrayLength(a) == IsInteger(a) /\ a.n >= 0

\* arr[i] for a number i: an element only when i is an integer index in range.
IsIndex(a, arr) == IsInteger(a) /\ a.n \in DOMAIN arr

\* A 0-based array from a tuple.
Array0(t) == [i \in 0..(Len(t) - 1) |-> t[i + 1]]

Vector3(x, y, z) == [x |-> x, y |-> y, z |-> z]

----------------------------------------------------------------------------
(* marchingConstants *)

\* Corner i sits at (bit 0, bit 1, bit 2) of i along (x, y, z).
CORNER_ARRAY ==
  Array0(<< Vector3(0, 0, 0), Vector3(1, 0, 0), Vector3(0, 1, 0), Vector3(1, 1, 0),
            Vector3(0, 0, 1), Vector3(1, 0, 1), Vector3(0, 1, 1), Vector3(1, 1, 1) >>)

\* Edge e joins the two corner positions EDGE_ARRAY[e][0] and EDGE_ARRAY[e][1].
EDGE_ARRAY ==
  LET c == CORNER_ARRAY
      E(a, b) == Array0(<<c[a], c[b]>>)
  IN  Array0(<< E(0, 1), E(1, 3), E(2, 3), E(0, 2), E(4, 5), E(5, 7),
                E(6, 7), E(4, 6), E(0, 4), E(1, 5), E(3, 7), E(2, 6) >>)

\* The 256-entry case table: edge-index triples, padded with -1.
TriangleRows ==
  <<
  <<-1, -1, -1, -1, -1, -1, -1, -1, -1, -1, -1, -1, -1, -1, -1, -1>>,
  <<0, 8, 3, -1, -1, -1, -1, -1, -1, -1, -1, -1, -1, -1, -1, -1>>,
  <<0, 1, 9, -1, -1, -1, -1, -1, -1, -1, -1, -1, -1, -1, -1, -1>>,
  <<1, 8, 3, 9, 8, 1, -1, -1, -1, -1, -1, -1, -1, -1, -1, -1>>,
  <<3, 11, 2, -1, -1, -1, -1, -1, -1, -1, -1, -1, -1, -1, -1, -1>>,
  <<0, 11, 2, 8, 11, 0, -1, -1, -1, -1, -1, -1, -1, -1, -1, -1>>,
  <<1, 9, 0, 2, 3, 11, -1, -1, -1, -1, -1, -1, -1, -1, -1, -1>>,
  <<1, 11, 2, 1, 9, 11, 9, 8, 11, -1, -1, -1, -1, -1, -1, -1>>,
  <<1, 2, 10, -1, -1, -1, -1, -1, -1, -1, -1, -1, -1, -1, -1, -1>>,
  <<0, 8, 3, 1, 2, 10, -1, -1, -1, -1, -1, -1, -1, -1, -1, -1>>,
  <<9, 2, 10, 0, 2, 9, -1, -1, -1, -1, -1, -1, -1, -1, -1, -1>>,
  <<2, 8, 3, 2, 10, 8, 10, 9, 8, -1, -1, -1, -1, -1, -1, -1>>,
  <<3, 10, 1, 11, 10, 3, -1, -1, -1, -1, -1, -1, -1, -1, -1, -1>>,
  <<0, 10, 1, 0, 8, 10, 8, 11, 10, -1, -1, -1, -1, -1, -1, -1>>,
  <<3, 9, 0, 3, 11, 9, 11, 10, 9, -1, -1, -1, -1, -1, -1, -1>>,
  <<9, 8, 10, 10, 8, 11, -1, -1, -1, -1, -1, -1, -1, -1, -1, -1>>,
  <<4, 7, 8, -1, -1, -1, -1, -1, -1, -1, -1, -1, -1, -1, -1, -1>>,
  <<4, 3, 0, 7, 3, 4, -1, -1, -1, -1, -1, -1, -1, -1, -1, -1>>,
  <<0, 1, 9, 8, 4, 7, -1, -1, -1, -1, -1, -1, -1, -1, -1, -1>>,
  <<4, 1, 9, 4, 7, 1, 7, 3, 1, -1, -1, -1, -1, -1, -1, -1>>,
  <<8, 4, 7, 3, 11, 2, -1, -1, -1, -1, -1, -1, -1, -1, -1, -1>>,
  <<11, 4, 7, 11, 2, 4, 2, 0, 4, -1, -1, -1, -1, -1, -1, -1>>,
  <<9, 0, 1, 8, 4, 7, 2, 3, 11, -1, -1, -1, -1, -1, -1, -1>>,
  <<4, 7, 11, 9, 4, 11, 9, 11, 2, 9, 2, 1, -1, -1, -1, -1>>,
  <<1, 2, 10, 8, 4, 7, -1, -1, -1, -1, -1, -1, -1, -1, -1, -1>>,
  <<3, 4, 7, 3, 0, 4, 1, 2, 10, -1, -1, -1, -1, -1, -1, -1>>,
  <<9, 2, 10, 9, 0, 2, 8, 4, 7, -1, -1, -1, -1, -1, -1, -1>>,
  <<2, 10, 9, 2, 9, 7, 2, 7, 3, 7, 9, 4, -1, -1, -1, -1>>,
  <<3, 10, 1, 3, 11, 10, 7, 8, 4, -1, -1, -1, -1, -1, -1, -1>>,
  <<1, 11, 10, 1, 4, 11, 1, 0, 4, 7, 11, 4, -1, -1, -1, -1>>,
  <<4, 7, 8, 9, 0, 11, 9, 11, 10, 11, 0, 3, -1, -1, -1, -1>>,
  <<4, 7, 11, 4, 11, 9, 9, 11, 10, -1, -1, -1, -1, -1, -1, -1>>,
  <<9, 5, 4, -1, -1, -1, -1, -1, -1, -1, -1, -1, -1, -1, -1, -1>>,
  <<9, 5, 4, 0, 8, 3, -1, -1, -1, -1, -1, -1, -1, -1, -1, -1>>,
  <<0, 5, 4, 1, 5, 0, -1, -1, -1, -1, -1, -1, -1, -1, -1, -1>>,
  <<8, 5, 4, 8, 3, 5, 3, 1, 5, -1, -1, -1, -1, -1, -1, -1>>,
  <<9, 5, 4, 2, 3, 11, -1, -1, -1, -1, -1, -1, -1, -1, -1, -1>>,
  <<0, 11, 2, 0, 8, 11, 4, 9, 5, -1, -1, -1, -1, -1, -1, -1>>,
  <<0, 5, 4, 0, 1, 5, 2, 3, 11, -1, -1, -1, -1, -1, -1, -1>>,
  <<2, 1, 5, 2, 5, 8, 2, 8, 11, 4, 8, 5, -1, -1, -1, -1>>,
  <<1, 2, 10, 9, 5, 4, -1, -1, -1, -1, -1, -1, -1, -1, -1, -1>>,
  <<3, 0, 8, 1, 2, 10, 4, 9, 5, -1, -1, -1, -1, -1, -1, -1>>,
  <<5, 2, 10, 5, 4, 2, 4, 0, 2, -1, -1, -1, -1, -1, -1, -1>>,
  <<2, 10, 5, 3, 2, 5, 3, 5, 4, 3, 4, 8, -1, -1, -1, -1>>,
  <<10, 3, 11, 10, 1, 3, 9, 5, 4, -1, -1, -1, -1, -1, -1, -1>>,
  <<4, 9, 5, 0, 8, 1, 8, 10, 1, 8, 11, 10, -1, -1, -1, -1>>,
  <<5, 4, 0, 5, 0, 11, 5, 11, 10, 11, 0, 3, -1, -1, -1, -1>>,
  <<5, 4, 8, 5, 8, 10, 10, 8, 11, -1, -1, -1, -1, -1, -1, -1>>,
  <<9, 7, 8, 5, 7, 9, -1, -1, -1, -1, -1, -1, -1, -1, -1, -1>>,
  <<9, 3, 0, 9, 5, 3, 5, 7, 3, -1, -1, -1, -1, -1, -1, -1>>,
  <<0, 7, 8, 0, 1, 7, 1, 5, 7, -1, -1, -1, -1, -1, -1, -1>>,
  <<1, 5, 3, 3, 5, 7, -1, -1, -1, -1, -1, -1, -1, -1, -1, -1>>,
  <<7, 9, 5, 7, 8, 9, 3, 11, 2, -1, -1, -1, -1, -1, -1, -1>>,
  <<9, 5, 7, 9, 7, 2, 9, 2, 0, 2, 7, 11, -1, -1, -1, -1>>,
  <<2, 3, 11, 0, 1, 8, 1, 7, 8, 1, 5, 7, -1, -1, -1, -1>>,
  <<11, 2, 1, 11, 1, 7, 7, 1, 5, -1, -1, -1, -1, -1, -1, -1>>,
  <<9, 7, 8, 9, 5, 7, 10, 1, 2, -1, -1, -1, -1, -1, -1, -1>>,
  <<10, 1, 2, 9, 5, 0, 5, 3, 0, 5, 7, 3, -1, -1, -1, -1>>,
  <<8, 0, 2, 8, 2, 5, 8, 5, 7, 10, 5, 2, -1, -1, -1, -1>>,
  <<2, 10, 5, 2, 5, 3, 3, 5, 7, -1, -1, -1, -1, -1, -1, -1>>,
  <<9, 5, 8, 8, 5, 7, 10, 1, 3, 10, 3, 11, -1, -1, -1, -1>>,
  <<5, 7, 0, 5, 0, 9, 7, 11, 0, 1, 0, 10, 11, 10, 0, -1>>,
  <<11, 10, 0, 11, 0, 3, 10, 5, 0, 8, 0, 7, 5, 7, 0, -1>>,
  <<11, 10, 5, 7, 11, 5, -1, -1, -1, -1, -1, -1, -1, -1, -1, -1>>,
  <<7, 6, 11, -1, -1, -1, -1, -1, -1, -1, -1, -1, -1, -1, -1, -1>>,
  <<3, 0, 8, 11, 7, 6, -1, -1, -1, -1, -1, -1, -1, -1, -1, -1>>,
  <<0, 1, 9, 11, 7, 6, -1, -1, -1, -1, -1, -1, -1, -1, -1, -1>>,
  <<8, 1, 9, 8, 3, 1, 11, 7, 6, -1, -1, -1, -1, -1, -1, -1>>,
  <<7, 2, 3, 6, 2, 7, -1, -1, -1, -1, -1, -1, -1, -1, -1, -1>>,
  <<7, 0, 8, 7, 6, 0, 6, 2, 0, -1, -1, -1, -1, -1, -1, -1>>,
  <<2, 7, 6, 2, 3, 7, 0, 1, 9, -1, -1, -1, -1, -1, -1, -1>>,
  <<1, 6, 2, 1, 8, 6, 1, 9, 8, 8, 7, 6, -1, -1, -1, -1>>,
  <<10, 1, 2, 6, 11, 7, -1, -1, -1, -1, -1, -1, -1, -1, -1, -1>>,
  <<1, 2, 10, 3, 0, 8, 6, 11, 7, -1, -1, -1, -1, -1, -1, -1>>,
  <<2, 9, 0, 2, 10, 9, 6, 11, 7, -1, -1, -1, -1, -1, -1, -1>>,
  <<6, 11, 7, 2, 10, 3, 10, 8, 3, 10, 9, 8, -1, -1, -1, -1>>,
  <<10, 7, 6, 10, 1, 7, 1, 3, 7, -1, -1, -1, -1, -1, -1, -1>>,
  <<10, 7, 6, 1, 7, 10, 1, 8, 7, 1, 0, 8, -1, -1, -1, -1>>,
  <<0, 3, 7, 0, 7, 10, 0, 10, 9, 6, 10, 7, -1, -1, -1, -1>>,
  <<7, 6, 10, 7, 10, 8, 8, 10, 9, -1, -1, -1, -1, -1, -1, -1>>,
  <<6, 8, 4, 11, 8, 6, -1, -1, -1, -1, -1, -1, -1, -1, -1, -1>>,
  <<3, 6, 11, 3, 0, 6, 0, 4, 6, -1, -1, -1, -1, -1, -1, -1>>,
  <<8, 6, 11, 8, 4, 6, 9, 0, 1, -1, -1, -1, -1, -1, -1, -1>>,
  <<9, 4, 6, 9, 6, 3, 9, 3, 1, 11, 3, 6, -1, -1, -1, -1>>,
  <<8, 2, 3, 8, 4, 2, 4, 6, 2, -1, -1, -1, -1, -1, -1, -1>>,
  <<0, 4, 2, 4, 6, 2, -1, -1, -1, -1, -1, -1, -1, -1, -1, -1>>,
  <<1, 9, 0, 2, 3, 4, 2, 4, 6, 4, 3, 8, -1, -1, -1, -1>>,
  <<1, 9, 4, 1, 4, 2, 2, 4, 6, -1, -1, -1, -1, -1, -1, -1>>,
  <<6, 8, 4, 6, 11, 8, 2, 10, 1, -1, -1, -1, -1, -1, -1, -1>>,
  <<1, 2, 10, 3, 0, 11, 0, 6, 11, 0, 4, 6, -1, -1, -1, -1>>,
  <<4, 11, 8, 4, 6, 11, 0, 2, 9, 2, 10, 9, -1, -1, -1, -1>>,
  <<10, 9, 3, 10, 3, 2, 9, 4, 3, 11, 3, 6, 4, 6, 3, -1>>,
  <<8, 1, 3, 8, 6, 1, 8, 4, 6, 6, 10, 1, -1, -1, -1, -1>>,
  <<10, 1, 0, 10, 0, 6, 6, 0, 4, -1, -1, -1, -1, -1, -1, -1>>,
  <<4, 6, 3, 4, 3, 8, 6, 10, 3, 0, 3, 9, 10, 9, 3, -1>>,
  <<10, 9, 4, 6, 10, 4, -1, -1, -1, -1, -1, -1, -1, -1, -1, -1>>,
  <<4, 9, 5, 7, 6, 11, -1, -1, -1, -1, -1, -1, -1, -1, -1, -1>>,
  <<0, 8, 3, 4, 9, 5, 11, 7, 6, -1, -1, -1, -1, -1, -1, -1>>,
  <<5, 0, 1, 5, 4, 0, 7, 6, 11, -1, -1, -1, -1, -1, -1, -1>>,
  <<11, 7, 6, 8, 3, 4, 3, 5, 4, 3, 1, 5, -1, -1, -1, -1>>,
  <<7, 2, 3, 7, 6, 2, 5, 4, 9, -1, -1, -1, -1, -1, -1, -1>>,
  <<9, 5, 4, 0, 8, 6, 0, 6, 2, 6, 8, 7, -1, -1, -1, -1>>,
  <<3, 6, 2, 3, 7, 6, 1, 5, 0, 5, 4, 0, -1, -1, -1, -1>>,
  <<6, 2, 8, 6, 8, 7, 2, 1, 8, 4, 8, 5, 1, 5, 8, -1>>,
  <<9, 5, 4, 10, 1, 2, 7, 6, 11, -1, -1, -1, -1, -1, -1, -1>>,
  <<6, 11, 7, 1, 2, 10, 0, 8, 3, 4, 9, 5, -1, -1, -1, -1>>,
  <<7, 6, 11, 5, 4, 10, 4, 2, 10, 4, 0, 2, -1, -1, -1, -1>>,
  <<3, 4, 8, 3, 5, 4, 3, 2, 5, 10, 5, 2, 11, 7, 6, -1>>,
  <<9, 5, 4, 10, 1, 6, 1, 7, 6, 1, 3, 7, -1, -1, -1, -1>>,
  <<1, 6, 10, 1, 7, 6, 1, 0, 7, 8, 7, 0, 9, 5, 4, -1>>,
  <<4, 0, 10, 4, 10, 5, 0, 3, 10, 6, 10, 7, 3, 7, 10, -1>>,
  <<7, 6, 10, 7, 10, 8, 5, 4, 10, 4, 8, 10, -1, -1, -1, -1>>,
  <<6, 9, 5, 6, 11, 9, 11, 8, 9, -1, -1, -1, -1, -1, -1, -1>>,
  <<3, 6, 11, 0, 6, 3, 0, 5, 6, 0, 9, 5, -1, -1, -1, -1>>,
  <<0, 11, 8, 0, 5, 11, 0, 1, 5, 5, 6, 11, -1, -1, -1, -1>>,
  <<6, 11, 3, 6, 3, 5, 5, 3, 1, -1, -1, -1, -1, -1, -1, -1>>,
  <<5, 8, 9, 5, 2, 8, 5, 6, 2, 3, 8, 2, -1, -1, -1, -1>>,
  <<9, 5, 6, 9, 6, 0, 0, 6, 2, -1, -1, -1, -1, -1, -1, -1>>,
  <<1, 5, 8, 1, 8, 0, 5, 6, 8, 3, 8, 2, 6, 2, 8, -1>>,
  <<1, 5, 6, 2, 1, 6, -1, -1, -1, -1, -1, -1, -1, -1, -1, -1>>,
  <<1, 2, 10, 9, 5, 11, 9, 11, 8, 11, 5, 6, -1, -1, -1, -1>>,
  <<0, 11, 3, 0, 6, 11, 0, 9, 6, 5, 6, 9, 1, 2, 10, -1>>,
  <<11, 8, 5, 11, 5, 6, 8, 0, 5, 10, 5, 2, 0, 2, 5, -1>>,
  <<6, 11, 3, 6, 3, 5, 2, 10, 3, 10, 5, 3, -1, -1, -1, -1>>,
  <<1, 3, 6, 1, 6, 10, 3, 8, 6, 5, 6, 9, 8, 9, 6, -1>>,
  <<10, 1, 0, 10, 0, 6, 9, 5, 0, 5, 6, 0, -1, -1, -1, -1>>,
  <<0, 3, 8, 5, 6, 10, -1, -1, -1, -1, -1, -1, -1, -1, -1, -1>>,
  <<10, 5, 6, -1, -1, -1, -1, -1, -1, -1, -1, -1, -1, -1, -1, -1>>,
  <<10, 6, 5, -1, -1, -1, -1, -1, -1, -1, -1, -1, -1, -1, -1, -1>>,
  <<0, 8, 3, 5, 10, 6, -1, -1, -1, -1, -1, -1, -1, -1, -1, -1>>,
  <<9, 0, 1, 5, 10, 6, -1, -1, -1, -1, -1, -1, -1, -1, -1, -1>>,
  <<1, 8, 3, 1, 9, 8, 5, 10, 6, -1, -1, -1, -1, -1, -1, -1>>,
  <<2, 3, 11, 10, 6, 5, -1, -1, -1, -1, -1, -1, -1, -1, -1, -1>>,
  <<11, 0, 8, 11, 2, 0, 10, 6, 5, -1, -1, -1, -1, -1, -1, -1>>,
  <<0, 1, 9, 2, 3, 11, 5, 10, 6, -1, -1, -1, -1, -1, -1, -1>>,
  <<5, 10, 6, 1, 9, 2, 9, 11, 2, 9, 8, 11, -1, -1, -1, -1>>,
  <<1, 6, 5, 2, 6, 1, -1, -1, -1, -1, -1, -1, -1, -1, -1, -1>>,
  <<1, 6, 5, 1, 2, 6, 3, 0, 8, -1, -1, -1, -1, -1, -1, -1>>,
  <<9, 6, 5, 9, 0, 6, 0, 2, 6, -1, -1, -1, -1, -1, -1, -1>>,
  <<5, 9, 8, 5, 8, 2, 5, 2, 6, 3, 2, 8, -1, -1, -1, -1>>,
  <<6, 3, 11, 6, 5, 3, 5, 1, 3, -1, -1, -1, -1, -1, -1, -1>>,
  <<0, 8, 11, 0, 11, 5, 0, 5, 1, 5, 11, 6, -1, -1, -1, -1>>,
  <<3, 11, 6, 0, 3, 6, 0, 6, 5, 0, 5, 9, -1, -1, -1, -1>>,
  <<6, 5, 9, 6, 9, 11, 11, 9, 8, -1, -1, -1, -1, -1, -1, -1>>,
  <<5, 10, 6, 4, 7, 8, -1, -1, -1, -1, -1, -1, -1, -1, -1, -1>>,
  <<4, 3, 0, 4, 7, 3, 6, 5, 10, -1, -1, -1, -1, -1, -1, -1>>,
  <<1, 9, 0, 5, 10, 6, 8, 4, 7, -1, -1, -1, -1, -1, -1, -1>>,
  <<10, 6, 5, 1, 9, 7, 1, 7, 3, 7, 9, 4, -1, -1, -1, -1>>,
  <<3, 11, 2, 7, 8, 4, 10, 6, 5, -1, -1, -1, -1, -1, -1, -1>>,
  <<5, 10, 6, 4, 7, 2, 4, 2, 0, 2, 7, 11, -1, -1, -1, -1>>,
  <<0, 1, 9, 4, 7, 8, 2, 3, 11, 5, 10, 6, -1, -1, -1, -1>>,
  <<9, 2, 1, 9, 11, 2, 9, 4, 11, 7, 11, 4, 5, 10, 6, -1>>,
  <<6, 1, 2, 6, 5, 1, 4, 7, 8, -1, -1, -1, -1, -1, -1, -1>>,
  <<1, 2, 5, 5, 2, 6, 3, 0, 4, 3, 4, 7, -1, -1, -1, -1>>,
  <<8, 4, 7, 9, 0, 5, 0, 6, 5, 0, 2, 6, -1, -1, -1, -1>>,
  <<7, 3, 9, 7, 9, 4, 3, 2, 9, 5, 9, 6, 2, 6, 9, -1>>,
  <<8, 4, 7, 3, 11, 5, 3, 5, 1, 5, 11, 6, -1, -1, -1, -1>>,
  <<5, 1, 11, 5, 11, 6, 1, 0, 11, 7, 11, 4, 0, 4, 11, -1>>,
  <<0, 5, 9, 0, 6, 5, 0, 3, 6, 11, 6, 3, 8, 4, 7, -1>>,
  <<6, 5, 9, 6, 9, 11, 4, 7, 9, 7, 11, 9, -1, -1, -1, -1>>,
  <<10, 4, 9, 6, 4, 10, -1, -1, -1, -1, -1, -1, -1, -1, -1, -1>>,
  <<4, 10, 6, 4, 9, 10, 0, 8, 3, -1, -1, -1, -1, -1, -1, -1>>,
  <<10, 0, 1, 10, 6, 0, 6, 4, 0, -1, -1, -1, -1, -1, -1, -1>>,
  <<8, 3, 1, 8, 1, 6, 8, 6, 4, 6, 1, 10, -1, -1, -1, -1>>,
  <<10, 4, 9, 10, 6, 4, 11, 2, 3, -1, -1, -1, -1, -1, -1, -1>>,
  <<0, 8, 2, 2, 8, 11, 4, 9, 10, 4, 10, 6, -1, -1, -1, -1>>,
  <<3, 11, 2, 0, 1, 6, 0, 6, 4, 6, 1, 10, -1, -1, -1, -1>>,
  <<6, 4, 1, 6, 1, 10, 4, 8, 1, 2, 1, 11, 8, 11, 1, -1>>,
  <<1, 4, 9, 1, 2, 4, 2, 6, 4, -1, -1, -1, -1, -1, -1, -1>>,
  <<3, 0, 8, 1, 2, 9, 2, 4, 9, 2, 6, 4, -1, -1, -1, -1>>,
  <<0, 2, 4, 4, 2, 6, -1, -1, -1, -1, -1, -1, -1, -1, -1, -1>>,
  <<8, 3, 2, 8, 2, 4, 4, 2, 6, -1, -1, -1, -1, -1, -1, -1>>,
  <<9, 6, 4, 9, 3, 6, 9, 1, 3, 11, 6, 3, -1, -1, -1, -1>>,
  <<8, 11, 1, 8, 1, 0, 11, 6, 1, 9, 1, 4, 6, 4, 1, -1>>,
  <<3, 11, 6, 3, 6, 0, 0, 6, 4, -1, -1, -1, -1, -1, -1, -1>>,
  <<6, 4, 8, 11, 6, 8, -1, -1, -1, -1, -1, -1, -1, -1, -1, -1>>,
  <<7, 10, 6, 7, 8, 10, 8, 9, 10, -1, -1, -1, -1, -1, -1, -1>>,
  <<0, 7, 3, 0, 10, 7, 0, 9, 10, 6, 7, 10, -1, -1, -1, -1>>,
  <<10, 6, 7, 1, 10, 7, 1, 7, 8, 1, 8, 0, -1, -1, -1, -1>>,
  <<10, 6, 7, 10, 7, 1, 1, 7, 3, -1, -1, -1, -1, -1, -1, -1>>,
  <<2, 3, 11, 10, 6, 8, 10, 8, 9, 8, 6, 7, -1, -1, -1, -1>>,
  <<2, 0, 7, 2, 7, 11, 0, 9, 7, 6, 7, 10, 9, 10, 7, -1>>,
  <<1, 8, 0, 1, 7, 8, 1, 10, 7, 6, 7, 10, 2, 3, 11, -1>>,
  <<11, 2, 1, 11, 1, 7, 10, 6, 1, 6, 7, 1, -1, -1, -1, -1>>,
  <<1, 2, 6, 1, 6, 8, 1, 8, 9, 8, 6, 7, -1, -1, -1, -1>>,
  <<2, 6, 9, 2, 9, 1, 6, 7, 9, 0, 9, 3, 7, 3, 9, -1>>,
  <<7, 8, 0, 7, 0, 6, 6, 0, 2, -1, -1, -1, -1, -1, -1, -1>>,
  <<7, 3, 2, 6, 7, 2, -1, -1, -1, -1, -1, -1, -1, -1, -1, -1>>,
  <<8, 9, 6, 8, 6, 7, 9, 1, 6, 11, 6, 3, 1, 3, 6, -1>>,
  <<0, 9, 1, 11, 6, 7, -1, -1, -1, -1, -1, -1, -1, -1, -1, -1>>,
  <<7, 8, 0, 7, 0, 6, 3, 11, 0, 11, 6, 0, -1, -1, -1, -1>>,
  <<7, 11, 6, -1, -1, -1, -1, -1, -1, -1, -1, -1, -1, -1, -1, -1>>,
  <<11, 5, 10, 7, 5, 11, -1, -1, -1, -1, -1, -1, -1, -1, -1, -1>>,
  <<11, 5, 10, 11, 7, 5, 8, 3, 0, -1, -1, -1, -1, -1, -1, -1>>,
  <<5, 11, 7, 5, 10, 11, 1, 9, 0, -1, -1, -1, -1, -1, -1, -1>>,
  <<10, 7, 5, 10, 11, 7, 9, 8, 1, 8, 3, 1, -1, -1, -1, -1>>,
  <<2, 5, 10, 2, 3, 5, 3, 7, 5, -1, -1, -1, -1, -1, -1, -1>>,
  <<8, 2, 0, 8, 5, 2, 8, 7, 5, 10, 2, 5, -1, -1, -1, -1>>,
  <<9, 0, 1, 5, 10, 3, 5, 3, 7, 3, 10, 2, -1, -1, -1, -1>>,
  <<9, 8, 2, 9, 2, 1, 8, 7, 2, 10, 2, 5, 7, 5, 2, -1>>,
  <<11, 1, 2, 11, 7, 1, 7, 5, 1, -1, -1, -1, -1, -1, -1, -1>>,
  <<0, 8, 3, 1, 2, 7, 1, 7, 5, 7, 2, 11, -1, -1, -1, -1>>,
  <<9, 7, 5, 9, 2, 7, 9, 0, 2, 2, 11, 7, -1, -1, -1, -1>>,
  <<7, 5, 2, 7, 2, 11, 5, 9, 2, 3, 2, 8, 9, 8, 2, -1>>,
  <<1, 3, 5, 3, 7, 5, -1, -1, -1, -1, -1, -1, -1, -1, -1, -1>>,
  <<0, 8, 7, 0, 7, 1, 1, 7, 5, -1, -1, -1, -1, -1, -1, -1>>,
  <<9, 0, 3, 9, 3, 5, 5, 3, 7, -1, -1, -1, -1, -1, -1, -1>>,
  <<9, 8, 7, 5, 9, 7, -1, -1, -1, -1, -1, -1, -1, -1, -1, -1>>,
  <<5, 8, 4, 5, 10, 8, 10, 11, 8, -1, -1, -1, -1, -1, -1, -1>>,
  <<5, 0, 4, 5, 11, 0, 5, 10, 11, 11, 3, 0, -1, -1, -1, -1>>,
  <<0, 1, 9, 8, 4, 10, 8, 10, 11, 10, 4, 5, -1, -1, -1, -1>>,
  <<10, 11, 4, 10, 4, 5, 11, 3, 4, 9, 4, 1, 3, 1, 4, -1>>,
  <<2, 5, 10, 3, 5, 2, 3, 4, 5, 3, 8, 4, -1, -1, -1, -1>>,
  <<5, 10, 2, 5, 2, 4, 4, 2, 0, -1, -1, -1, -1, -1, -1, -1>>,
  <<3, 10, 2, 3, 5, 10, 3, 8, 5, 4, 5, 8, 0, 1, 9, -1>>,
  <<5, 10, 2, 5, 2, 4, 1, 9, 2, 9, 4, 2, -1, -1, -1, -1>>,
  <<2, 5, 1, 2, 8, 5, 2, 11, 8, 4, 5, 8, -1, -1, -1, -1>>,
  <<0, 4, 11, 0, 11, 3, 4, 5, 11, 2, 11, 1, 5, 1, 11, -1>>,
  <<0, 2, 5, 0, 5, 9, 2, 11, 5, 4, 5, 8, 11, 8, 5, -1>>,
  <<9, 4, 5, 2, 11, 3, -1, -1, -1, -1, -1, -1, -1, -1, -1, -1>>,
  <<8, 4, 5, 8, 5, 3, 3, 5, 1, -1, -1, -1, -1, -1, -1, -1>>,
  <<0, 4, 5, 1, 0, 5, -1, -1, -1, -1, -1, -1, -1, -1, -1, -1>>,
  <<8, 4, 5, 8, 5, 3, 9, 0, 5, 0, 3, 5, -1, -1, -1, -1>>,
  <<9, 4, 5, -1, -1, -1, -1, -1, -1, -1, -1, -1, -1, -1, -1, -1>>,
  <<4, 11, 7, 4, 9, 11, 9, 10, 11, -1, -1, -1, -1, -1, -1, -1>>,
  <<0, 8, 3, 4, 9, 7, 9, 11, 7, 9, 10, 11, -1, -1, -1, -1>>,
  <<1, 10, 11, 1, 11, 4, 1, 4, 0, 7, 4, 11, -1, -1, -1, -1>>,
  <<3, 1, 4, 3, 4, 8, 1, 10, 4, 7, 4, 11, 10, 11, 4, -1>>,
  <<2, 9, 10, 2, 7, 9, 2, 3, 7, 7, 4, 9, -1, -1, -1, -1>>,
  <<9, 10, 7, 9, 7, 4, 10, 2, 7, 8, 7, 0, 2, 0, 7, -1>>,
  <<3, 7, 10, 3, 10, 2, 7, 4, 10, 1, 10, 0, 4, 0, 10, -1>>,
  <<1, 10, 2, 8, 7, 4, -1, -1, -1, -1, -1, -1, -1, -1, -1, -1>>,
  <<4, 11, 7, 9, 11, 4, 9, 2, 11, 9, 1, 2, -1, -1, -1, -1>>,
  <<9, 7, 4, 9, 11, 7, 9, 1, 11, 2, 11, 1, 0, 8, 3, -1>>,
  <<11, 7, 4, 11, 4, 2, 2, 4, 0, -1, -1, -1, -1, -1, -1, -1>>,
  <<11, 7, 4, 11, 4, 2, 8, 3, 4, 3, 2, 4, -1, -1, -1, -1>>,
  <<4, 9, 1, 4, 1, 7, 7, 1, 3, -1, -1, -1, -1, -1, -1, -1>>,
  <<4, 9, 1, 4, 1, 7, 0, 8, 1, 8, 7, 1, -1, -1, -1, -1>>,
  <<4, 0, 3, 7, 4, 3, -1, -1, -1, -1, -1, -1, -1, -1, -1, -1>>,
  <<4, 8, 7, -1, -1, -1, -1, -1, -1, -1, -1, -1, -1, -1, -1, -1>>,
  <<9, 10, 8, 10, 11, 8, -1, -1, -1, -1, -1, -1, -1, -1, -1, -1>>,
  <<3, 0, 9, 3, 9, 11, 11, 9, 10, -1, -1, -1, -1, -1, -1, -1>>,
  <<0, 1, 10, 0, 10, 8, 8, 10, 11, -1, -1, -1, -1, -1, -1, -1>>,
  <<3, 1, 10, 11, 3, 10, -1, -1, -1, -1, -1, -1, -1, -1, -1, -1>>,
  <<2, 3, 8, 2, 8, 10, 10, 8, 9, -1, -1, -1, -1, -1, -1, -1>>,
  <<9, 10, 2, 0, 9, 2, -1, -1, -1, -1, -1, -1, -1, -1, -1, -1>>,
  <<2, 3, 8, 2, 8, 10, 0, 1, 8, 1, 10, 8, -1, -1, -1, -1>>,
  <<1, 10, 2, -1, -1, -1, -1, -1, -1, -1, -1, -1, -1, -1, -1, -1>>,
  <<1, 2, 11, 1, 11, 9, 9, 11, 8, -1, -1, -1, -1, -1, -1, -1>>,
  <<3, 0, 9, 3, 9, 11, 1, 2, 9, 2, 11, 9, -1, -1, -1, -1>>,
  <<0, 2, 11, 8, 0, 11, -1, -1, -1, -1, -1, -1, -1, -1, -1, -1>>,
  <<3, 2, 11, -1, -1, -1, -1, -1, -1, -1, -1, -1, -1, -1, -1, -1>>,
  <<1, 3, 8, 9, 1, 8, -1, -1, -1, -1, -1, -1, -1, -1, -1, -1>>,
  <<0, 9, 1, -1, -1, -1, -1, -1, -1, -1, -1, -1, -1, -1, -1, -1>>,
  <<0, 3, 8, -1, -1, -1, -1, -1, -1, -1, -1, -1, -1, -1, -1, -1>>,
  <<-1, -1, -1, -1, -1, -1, -1, -1, -1, -1, -1, -1, -1, -1, -1, -1>>
  >>

TRIANGLE_TABLE == Array0([c \in 1..Len(TriangleRows) |-> Array0(TriangleRows[c])])

----------------------------------------------------------------------------
(* VoxelGrid.initializeGrid *)

\* The sample every cell is filled with.
FillValue == -1

\* The sample written to the hard-coded cells.
SeedValue == 1

\* size.axis * resolution, the extent the code uses along an axis.
Extent(s, res) == Times(Num(s), res)

\* Array.from({length: X}, () => Array.from({length: Y}, () => Array(Z).fill(-1))):
\* X and Y are truncated by Array.from; Array(Z) throws a RangeError for a
\* fractional Z, as soon as one innermost array is built.
AllocateGrid(sz, res) ==
  LET nx == ToLength(Extent(sz.x, res))
      ny == ToLength(Extent(sz.y, res))
      pz == Extent(sz.z, res)
  IN  IF nx > 0 /\ ny > 0 /\ ~ValidArrayLength(pz)
        THEN [threw |-> TRUE, error |-> "RangeError", grid |-> <<>>]
        ELSE [threw |-> FALSE, error |-> "none",
              grid |-> [i \in 0..(nx - 1) |-> [j \in 0..(ny - 1) |->
                          [k \in 0..(pz.n - 1) |-> FillValue]]]]

\* The offsets (dx, dy) from the centre cell of the eight assignments, in order.
SeedOffsets ==
  << <<0, 0>>, <<1, 0>>, <<2, 0>>, <<2, -1>>, <<2, -2>>, <<2, -3>>, <<3, 0>>, <<4, 0>> >>

\* The index (size.axis / 2) * resolution + d.
SeedIndex(s, res, d) == Plus(Times(Over(Num(s), Num(2)), res), Num(d))

\* The cells the eight assignments address, as number triples.
SeedCells(sz, res) ==
  { Vector3(SeedIndex(sz.x, res, SeedOffsets[k][1]),
            SeedIndex(sz.y, res, SeedOffsets[k][2]),
            SeedIndex(sz.z, res, 0)) : k \in 1..Len(SeedOffsets) }

\* col[zi] = 1 on an array col: an in-range index stores the sample, an index
\* at or beyond the length grows the array (a sparse array), any other
\* key only adds a property.
StoreSample(col, zi) ==
  IF ~(IsInteger(zi) /\ zi.n >= 0) THEN col
  ELSE [k \in (DOMAIN col) \cup {zi.n} |-> IF k = zi.n THEN SeedValue ELSE col[k]]

\* this.grid[xi][yi][zi] = 1: a TypeError when this.grid[xi] or this.grid[xi][yi]
\* is undefined.
WriteSeed(g, xi, yi, zi) ==
  IF ~IsIndex(xi, g) THEN [threw |-> TRUE, grid |-> g]
  ELSE IF ~IsIndex(yi, g[xi.n]) THEN [threw |-> TRUE, grid |-> g]
  ELSE [threw |-> FALSE,
        grid |-> [g EXCEPT ![xi.n][yi.n] = StoreSample(g[xi.n][yi.n], zi)]]

\* The eight assignments from the k-th on; the first that throws ends them.
RECURSIVE SeedFrom(_, _, _, _)
SeedFrom(g, sz, res, k) ==
  IF k > Len(SeedOffsets) THEN [threw |-> FALSE, error |-> "none", grid |-> g]
  ELSE LET w == WriteSeed(g, SeedIndex(sz.x, res, SeedOffsets[k][1]),
                             SeedIndex(sz.y, res, SeedOffsets[k][2]),
                             SeedIndex(sz.z, res, 0))
       IN  IF w.threw THEN [threw |-> TRUE, error |-> "TypeError", grid |-> w.grid]
           ELSE SeedFrom(w.grid, sz, res, k + 1)

\* initializeGrid on an object whose grid is old: this.grid is assigned only
\* when the allocation completes; the seeding then writes into it.
initializeGrid(old, sz, res) ==
  LET a == AllocateGrid(sz, res)
  IN  IF a.threw THEN [threw |-> TRUE, error |-> a.error, grid |-> old]
      ELSE SeedFrom(a.grid, sz, res, 1)
----------------------------------------------------------------------------
(* VoxelGrid.marchCubes *)

\* A loop that runs to the last index: i < size.axis * resolution.
LoopContinuesToEnd(i, s, res) == Less(Num(i), Extent(s, res))

\* A loop that stops one index early: i < size.axis * resolution - 2.
LoopContinuesSkipTwo(i, s, res) == Less(Num(i), Minus(Extent(s, res), Num(2)))

\* The loop condition i < size.axis * resolution - 1.
LoopContinues(i, s, res) == Less(Num(i), Minus(Extent(s, res), Num(1)))

\* The grid index of corner i of the cell anchored at (x, y, z).
CornerIndex(x, y, z, i) ==
  <<x + CORNER_ARRAY[i].x, y + CORNER_ARRAY[i].y, z + CORNER_ARRAY[i].z>>

\* this.grid[a][b][c] throws a TypeError when this.grid[a] or this.grid[a][b]
\* is undefined; an absent this.grid[a][b][c] only reads undefined.
ReadThrows(g, idx) == idx[1] \notin DOMAIN g \/ idx[2] \notin DOMAIN g[idx[1]]
ReadDefined(g, idx) == ~ReadThrows(g, idx) /\ idx[3] \in DOMAIN g[idx[1]][idx[2]]

\* this.grid[...] > this.isovalue (false for undefined).
Inside(g, idx, iso) == ReadDefined(g, idx) /\ g[idx[1]][idx[2]][idx[3]] > iso

\* A corner loop that stops before the last corner.
CornerRangeShort == (DOMAIN CORNER_ARRAY) \ {7}

\* The corners tested by the loop over CORNER_ARRAY.entries().
CornerRange == DOMAIN CORNER_ARRAY

\* cubeConfigByte after corners i, i+1, ...: bit i is set by |= 1 << i.
RECURSIVE ConfigFrom(_, _, _, _, _, _)
ConfigFrom(g, iso, x, y, z, i) ==
  IF i \notin CornerRange THEN 0
  ELSE (IF Inside(g, CornerIndex(x, y, z, i), iso) THEN 2 ^ i ELSE 0)
       + ConfigFrom(g, iso, x, y, z, i + 1)

cubeConfigByte(g, iso, x, y, z) == ConfigFrom(g, iso, x, y, z, 0)

\* Whether sampling the corners of the cell throws.
CellThrows(g, x, y, z) == \E i \in CornerRange : ReadThrows(g, CornerIndex(x, y, z, i))

\* TRIANGLE_TABLE[cubeConfigByte]
Triangles(config) == TRIANGLE_TABLE[config]

VAdd(a, b) == Vector3(Plus(a.x, b.x), Plus(a.y, b.y), Plus(a.z, b.z))
multiplyScalar(a, k) == Vector3(Times(a.x, k), Times(a.y, k), Times(a.z, k))

createScaledVector(point, res) ==
  Vector3(Over(Num(point.x), res), Over(Num(point.y), res), Over(Num(point.z), res))

\* The sum of the two scaled endpoints, not halved.
getEdgeEndpointSum(edge, res) ==
  VAdd(createScaledVector(edge[0], res), createScaledVector(edge[1], res))

getEdgeMidpoint(edge, res) ==
  multiplyScalar(VAdd(createScaledVector(edge[0], res), createScaledVector(edge[1], res)), Half)

\* new Vector3(x / resolution, y / resolution, z / resolution)
CellBase(x, y, z, res) == Vector3(Over(Num(x), res), Over(Num(y), res), Over(Num(z), res))

\* A push that drops the third vertex of the triangle.
TriangleVertexesPair(triangles, i, x, y, z, res) ==
  << VAdd(CellBase(x, y, z, res), getEdgeMidpoint(EDGE_ARRAY[triangles[i]], res)),
     VAdd(CellBase(x, y, z, res), getEdgeMidpoint(EDGE_ARRAY[triangles[i + 1]], res)) >>

\* The three vertices pushed for the triangle at triangles[i .. i+2].
TriangleVertexes(triangles, i, x, y, z, res) ==
  << VAdd(CellBase(x, y, z, res), getEdgeMidpoint(EDGE_ARRAY[triangles[i]], res)),
     VAdd(CellBase(x, y, z, res), getEdgeMidpoint(EDGE_ARRAY[triangles[i + 1]], res)),
     VAdd(CellBase(x, y, z, res), getEdgeMidpoint(EDGE_ARRAY[triangles[i + 2]], res)) >>

\* EDGE_ARRAY[triangles[i]] is an edge (undefined makes getEdgeMidpoint throw).
EdgeDefined(triangles, i) == i \in DOMAIN triangles /\ triangles[i] \in DOMAIN EDGE_ARRAY

\* while (i < triangles.length) { if (triangles[i] === -1) break; ...; i += 3 }
\* from index i on: the vertices pushed, and whether an undefined edge threw.
RECURSIVE TriangleLoop(_, _, _, _, _, _)
TriangleLoop(triangles, i, x, y, z, res) ==
  IF i \notin DOMAIN triangles \/ triangles[i] = -1
    THEN [vertexes |-> <<>>, threw |-> FALSE]
  ELSE IF \E k \in 0..2 : ~EdgeDefined(triangles, i + k)
    THEN [vertexes |-> <<>>, threw |-> TRUE]
  ELSE LET rest == TriangleLoop(triangles, i + 3, x, y, z, res)
       IN  [vertexes |-> TriangleVertexes(triangles, i, x, y, z, res) \o rest.vertexes,
            threw |-> rest.threw]

\* One pass of the innermost loop body: the vertices it pushes.
MarchCell(this, x, y, z) ==
  IF CellThrows(this.grid, x, y, z) THEN [vertexes |-> <<>>, threw |-> TRUE]
  ELSE TriangleLoop(Triangles(cubeConfigByte(this.grid, this.isovalue, x, y, z)),
                    0, x, y, z, this.resolution)

\* The pushes of a loop body followed by those of the remaining iterations;
\* nothing follows a throw.
Then(first, rest) ==
  IF first.threw THEN first
  ELSE [vertexes |-> first.vertexes \o rest.vertexes, threw |-> rest.threw]

NoPush == [vertexes |-> <<>>, threw |-> FALSE]

\* for (let z = ...; z < this.size.z * this.resolution - 1; z++)
RECURSIVE MarchZ(_, _, _, _)
MarchZ(this, x, y, z) ==
  IF ~LoopContinues(z, this.size.z, this.resolution) THEN NoPush
  ELSE Then(MarchCell(this, x, y, z), MarchZ(this, x, y, z + 1))

\* for (let y = ...; y < this.size.y * this.resolution - 1; y++)
RECURSIVE MarchY(_, _, _)
MarchY(this, x, y) ==
  IF ~LoopContinues(y, this.size.y, this.resolution) THEN NoPush
  ELSE Then(MarchZ(this, x, y, 0), MarchY(this, x, y + 1))

\* for (let x = ...; x < this.size.x * this.resolution - 1; x++)
RECURSIVE MarchX(_, _)
MarchX(this, x) ==
  IF ~LoopContinues(x, this.size.x, this.resolution) THEN NoPush
  ELSE Then(MarchY(this, x, 0), MarchX(this, x + 1))

\* A buffer that keeps the vertices of the previous pass.
KeptBuffer(old) == old

\* this.meshVertexes = []
ClearedBuffer(old) == <<>>

\* marchCubes on the object this: the new meshVertexes, and whether a
\* TypeError ended the pass (the vertices pushed before it stay in the buffer).
marchCubes(this) ==
  LET pass == MarchX(this, 0)
  IN  [vertexes |-> ClearedBuffer(this.meshVertexes) \o pass.vertexes, threw |-> pass.threw]

----------------------------------------------------------------------------
(* VoxelGrid.generateMesh, removeMeshAndDispose *)

UndefinedMesh == [defined |-> FALSE]

\* The Float32Array of positions: x, y, z of every vertex in order.
\* positions[i * 3] = v.x, positions[i * 3 + 1] = v.y, positions[i * 3 + 2] = v.z
Positions(vs) ==
  [p \in 0..(3 * Len(vs) - 1) |->
     LET v == vs[(p \div 3) + 1]
     IN  IF p % 3 = 0 THEN v.x ELSE IF p % 3 = 1 THEN v.y ELSE v.z]

\* The length check that guards the mesh construction.
LengthRejected(vs) == Len(vs) % 3 # 0

\* generateMesh: throws on a length that is no multiple of 3, otherwise
\* builds the Mesh object (named id) that this.mesh is set to.
generateMesh(vs, id) ==
  IF LengthRejected(vs) THEN [threw |-> TRUE, mesh |-> UndefinedMesh]
  ELSE [threw |-> FALSE,
        mesh |-> [defined |-> TRUE, id |-> id, positions |-> Positions(vs),
                  position |-> Vector3(Num(0), Num(0), Num(0)), disposed |-> FALSE]]

\* A removal that leaves the mesh among the scene's children.
SceneKeep(sc, m) == sc

\* removeMeshAndDispose: scene.remove(mesh), then geometry and material are disposed.
SceneRemove(sc, m) == sc \ {m.id}
Disposed(m) == [m EXCEPT !.disposed = TRUE]
removeMeshAndDispose(sc, m) == [scene |-> SceneRemove(sc, m), mesh |-> Disposed(m)]

----------------------------------------------------------------------------
(* Bounds *)

\* The settings panel offers the resolutions n/4 for n in 0..MaxSliderN.
MaxSliderN == 5

\* Render calls per behaviour.
MaxRenders == 2

\* Animation frames per behaviour.
MaxFrames == 2

----------------------------------------------------------------------------
(* VoxelGrid.render, step by step *)

This ==
  [grid |-> grid, size |-> size, resolution |-> resolution, isovalue |-> isovalue,
   meshVertexes |-> meshVertexes]

\* if (this.mesh) removeMeshAndDispose(scene, this.mesh);
RenderRemove ==
  /\ pc = "render"
  /\ IF mesh.defined
       THEN LET r == removeMeshAndDispose(scene, mesh)
            IN  scene' = r.scene /\ mesh' = r.mesh
       ELSE UNCHANGED <<scene, mesh>>
  /\ pc' = "marchCubes"
  /\ UNCHANGED <<resolution, size, isovalue, grid, meshVertexes, error, renders, frames>>

\* this.marchCubes(); an exception leaves render (and the handler).
RenderMarchCubes ==
  /\ pc = "marchCubes"
  /\ LET r == marchCubes(This)
     IN  /\ meshVertexes' = r.vertexes
         /\ pc' = IF r.threw THEN "idle" ELSE "generateMesh"
         /\ error' = IF r.threw THEN "TypeError" ELSE error
  /\ UNCHANGED <<resolution, size, isovalue, grid, mesh, scene, renders, frames>>

\* try { this.generateMesh(); scene.add(this.mesh!); } catch (error) { console.log(error); }
RenderGenerateMesh ==
  /\ pc = "generateMesh"
  /\ LET r == generateMesh(meshVertexes, renders)
     IN  IF r.threw
           THEN error' = "InvalidState" /\ UNCHANGED <<mesh, scene>>
           ELSE mesh' = r.mesh /\ scene' = scene \cup {r.mesh.id} /\ UNCHANGED error
  /\ pc' = "idle"
  /\ UNCHANGED <<resolution, size, isovalue, grid, meshVertexes, renders, frames>>

RenderStep == RenderRemove \/ RenderMarchCubes \/ RenderGenerateMesh

----------------------------------------------------------------------------
(* index.ts: the program *)

\* new VoxelGrid(4, new Vector3(10, 10, 10), 0, ...)
InitialResolution == 4
GridSize == 10
InitialIsovalue == 0

\* The values the Resolution slider (range 0..50) can hand to onChange.
SliderValues == {Rat(n, 4) : n \in 0..MaxSliderN}

\* new Vector3(0, 0.01, 0), added to the mesh position every frame.
FrameOffset == Vector3(Num(0), Rat(1, 100), Num(0))

Init ==
  /\ resolution = Num(InitialResolution)
  /\ size = Vector3(GridSize, GridSize, GridSize)
  /\ isovalue = InitialIsovalue
  /\ grid = initializeGrid(<<>>, Vector3(GridSize, GridSize, GridSize), Num(InitialResolution)).grid
  /\ meshVertexes = <<>>
  /\ mesh = UndefinedMesh
  /\ scene = {}
  /\ pc = "idle"
  /\ error = "none"
  /\ renders = 0
  /\ frames = 0

\* onChange: grid.resolution = value; grid.initializeGrid(); grid.render(scene);
\* an exception in initializeGrid ends the handler before render.
OnChange(value) ==
  /\ pc = "idle"
  /\ LET r == initializeGrid(grid, size, value)
     IN  /\ (r.threw \/ renders < MaxRenders)
         /\ resolution' = value
         /\ grid' = r.grid
         /\ error' = r.error
         /\ pc' = IF r.threw THEN "idle" ELSE "render"
         /\ renders' = IF r.threw THEN renders ELSE renders + 1
  /\ UNCHANGED <<size, isovalue, meshVertexes, mesh, scene, frames>>

\* animate: grid.mesh?.position.add(new Vector3(0, 0.01, 0))
Animate ==
  /\ pc = "idle"
  /\ frames < MaxFrames
  /\ frames' = frames + 1
  /\ mesh' = IF mesh.defined THEN [mesh EXCEPT !.position = VAdd(@, FrameOffset)] ELSE mesh
  /\ UNCHANGED <<resolution, size, isovalue, grid, meshVertexes, scene, pc, error, renders>>

Next == (\E value \in SliderValues : OnChange(value)) \/ RenderStep \/ Animate

Spec == Init /\ [][Next]_vars

----------------------------------------------------------------------------
(* Extraction over arbitrary valid fields *)

\* A render call from a caller of the class.
CallRender ==
  /\ pc = "idle"
  /\ renders < MaxRenders
  /\ renders' = renders + 1
  /\ pc' = "render"
  /\ error' = "none"
  /\ UNCHANGED <<resolution, size, isovalue, grid, meshVertexes, mesh, scene, frames>>

\* Cells of a field that may differ from its background sample.
MaxSeeds == 1

\* Field sizes along an axis, in world units.
FieldSizes == 1..3

\* Array extents along an axis.
FieldExtents == 1..3

FieldResolutions == {Rat(1, 2), Num(1), Num(2)}
\* An isovalue below every sample, and one between the two sample values.
FieldIsovalues == {-2, 0}
SampleValues == {FillValue, SeedValue}

\* The index triples of an array with extents e.
Samples(e) == (0..(e[1] - 1)) \X (0..(e[2] - 1)) \X (0..(e[3] - 1))

GridOf(e, f) ==
  [i \in 0..(e[1] - 1) |-> [j \in 0..(e[2] - 1) |-> [k \in 0..(e[3] - 1) |-> f[<<i, j, k>>]]]]

\* The subsets of S with at most k elements.
RECURSIVE SubsetsUpTo(_, _)
SubsetsUpTo(S, k) ==
  IF k = 0 THEN {{}}
  ELSE LET smaller == SubsetsUpTo(S, k - 1)
       IN  smaller \cup {T \cup {s} : T \in smaller, s \in S}

\* The contents drawn for extents e: every two-valued content of a field of
\* one cell (all 256 configurations), and for larger fields the fill sample
\* with at most MaxSeeds seed samples.
FieldContents(e) ==
  IF e = <<2, 2, 2>>
    THEN [Samples(e) -> SampleValues]
    ELSE { [s \in Samples(e) |-> IF s \in seeds THEN SeedValue ELSE FillValue] :
             seeds \in SubsetsUpTo(Samples(e), MaxSeeds) }

\* A field satisfies the shape invariant: resolution > 0 and the extents
\* size.axis * resolution are the positive integers the array has.
FieldInit ==
  /\ resolution \in FieldResolutions
  /\ isovalue \in FieldIsovalues
  /\ size \in {Vector3(x, y, z) : x \in FieldSizes, y \in FieldSizes, z \in FieldSizes}
  /\ \A s \in {size.x, size.y, size.z} :
        /\ IsInteger(Extent(s, resolution))
        /\ Extent(s, resolution).n \in FieldExtents
  /\ LET e == <<Extent(size.x, resolution).n, Extent(size.y, resolution).n,
                Extent(size.z, resolution).n>>
     IN  \E f \in FieldContents(e) : grid = GridOf(e, f)
  /\ meshVertexes = <<>>
  /\ mesh = UndefinedMesh
  /\ scene = {}
  /\ pc = "idle"
  /\ error = "none"
  /\ renders = 0
  /\ frames = 0

FieldNext == CallRender \/ RenderStep

FieldSpec == FieldInit /\ [][FieldNext]_vars

----------------------------------------------------------------------------
(* Construction over a range of arguments *)

CtorSizes == {Vector3(x, y, z) : x \in {10, 12}, y \in {6, 10}, z \in {2, 3}}
CtorIsovalues == -2..1

\* Before new VoxelGrid(resolution, size, isovalue, position): the arguments.
CtorInit ==
  /\ resolution \in SliderValues
  /\ size \in CtorSizes
  /\ isovalue \in CtorIsovalues
  /\ grid = <<>>
  /\ meshVertexes = <<>>
  /\ mesh = UndefinedMesh
  /\ scene = {}
  /\ pc = "new"
  /\ error = "none"
  /\ renders = 0
  /\ frames = 0

\* The constructor: the fields are set, then initializeGrid runs; an exception
\* leaves no object.
Construct ==
  /\ pc = "new"
  /\ LET r == initializeGrid(grid, size, resolution)
     IN  /\ grid' = r.grid
         /\ error' = r.error
         /\ pc' = IF r.threw THEN "failed" ELSE "idle"
  /\ UNCHANGED <<resolution, size, isovalue, meshVertexes, mesh, scene, renders, frames>>

CtorNext == Construct \/ CallRender \/ RenderStep

CtorSpec == CtorInit /\ [][CtorNext]_vars

----------------------------------------------------------------------------
(* Properties *)

\* The lengths of the allocated array along each axis equal n (y and z for
\* every row and column there is).
ArrayHasExtents(g, n) ==
  /\ Cardinality(DOMAIN g) = n[1]
  /\ \A i \in DOMAIN g :
       /\ Cardinality(DOMAIN g[i]) = n[2]
       /\ \A j \in DOMAIN g[i] : Cardinality(DOMAIN g[i][j]) = n[3]

\* The cells the three loops visit when no read throws.
VisitedCells ==
  { c \in (0..Ceil(Extent(size.x, resolution))) \X (0..Ceil(Extent(size.y, resolution)))
            \X (0..Ceil(Extent(size.z, resolution))) :
      /\ LoopContinues(c[1], size.x, resolution)
      /\ LoopContinues(c[2], size.y, resolution)
      /\ LoopContinues(c[3], size.z, resolution) }

\* The index triples of the samples the array holds.
AllSamples ==
  UNION { UNION { {<<i, j, k>> : k \in DOMAIN grid[i][j]} : j \in DOMAIN grid[i] } :
          i \in DOMAIN grid }

Above(s) == grid[s[1]][s[2]][s[3]] > isovalue
Below(s) == grid[s[1]][s[2]][s[3]] < isovalue

\* A pass of marchCubes has just completed.
Extracted == pc = "generateMesh"

\* C1: after marchCubes the length of meshVertexes is a multiple of 3, and
\* the length check of generateMesh never rejects it.
C1_LengthMultipleOfThree ==
  /\ Len(meshVertexes) % 3 = 0
  /\ error # "InvalidState"

C1_Witness == Extracted /\ Len(meshVertexes) >= 6

\* C2: while render has not yet produced the vertex list of this call, the
\* previously generated mesh is still in the scene and not disposed.
C2_PreviousMeshKeptUntilExtracted ==
  (pc = "marchCubes" /\ mesh.defined) => (mesh.id \in scene /\ ~mesh.disposed)

\* C3: on a field whose extents satisfy the shape invariant, every corner
\* read of every cell a pass is about to visit lies inside [0, extent) on each axis and inside
\* the array, and marchCubes never ends in a TypeError.
C3_ReadsInRange ==
  /\ error # "TypeError"
  /\ pc = "marchCubes" => \A c \in VisitedCells : \A i \in CornerRange :
       LET idx == CornerIndex(c[1], c[2], c[3], i)
       IN  /\ idx[1] >= 0 /\ Less(Num(idx[1]), Extent(size.x, resolution))
           /\ idx[2] >= 0 /\ Less(Num(idx[2]), Extent(size.y, resolution))
           /\ idx[3] >= 0 /\ Less(Num(idx[3]), Extent(size.z, resolution))
           /\ ReadDefined(grid, idx)

C3_Witness ==
  /\ Extracted
  /\ \E c \in VisitedCells :
       CornerIndex(c[1], c[2], c[3], 7)
         = <<Extent(size.x, resolution).n - 1, Extent(size.y, resolution).n - 1,
             Extent(size.z, resolution).n - 1>>

\* C4: after initializeGrid, for any resolution > 0, the array has
\* ceil(size.axis * resolution) entries along each axis.
C4_ExtentsAreCeiling ==
  (pc = "idle" /\ Less(Num(0), resolution)) =>
    ArrayHasExtents(grid, <<Ceil(Extent(size.x, resolution)), Ceil(Extent(size.y, resolution)),
                            Ceil(Extent(size.z, resolution))>>)

\* C5: a constructed grid holds, in every cell the hard-coded assignments do
\* not address, a sample strictly less than the isovalue.
C5_FillBelowIsovalue ==
  pc = "idle" =>
    \A s \in AllSamples :
      Vector3(Num(s[1]), Num(s[2]), Num(s[3])) \notin SeedCells(size, resolution) => Below(s)

\* C6: on a uniform field (every sample above the isovalue, or none) the
\* vertex list is empty.
Uniform == (\A s \in AllSamples : Above(s)) \/ (\A s \in AllSamples : ~Above(s))

C6_UniformFieldIsEmpty == (Extracted /\ Uniform) => meshVertexes = <<>>

C6_Witness == Extracted /\ VisitedCells # {} /\ \A s \in AllSamples : Above(s)

\* The field of the scenario: extents 3x3x3 at resolution 1, only the sample
\* at (1,1,1) above the isovalue, every other sample below it.
CentreSampleField ==
  /\ resolution = Num(1)
  /\ size = Vector3(3, 3, 3)
  /\ ArrayHasExtents(grid, <<3, 3, 3>>)
  /\ \A s \in AllSamples : IF s = <<1, 1, 1>> THEN Above(s) ELSE Below(s)

\* The midpoints of the six grid edges that leave the sample (1,1,1).
CentreCrossings ==
  { Vector3(Plus(Num(1), Rat(d[1], 2)), Plus(Num(1), Rat(d[2], 2)), Plus(Num(1), Rat(d[3], 2))) :
      d \in { <<1, 0, 0>>, <<-1, 0, 0>>, <<0, 1, 0>>, <<0, -1, 0>>, <<0, 0, 1>>, <<0, 0, -1>> } }

\* C7 as stated: the scenario yields exactly 3 vertices (one triangle).
C7_SingleTriangle == (Extracted /\ CentreSampleField) => Len(meshVertexes) = 3

\* C7 amended: the scenario yields exactly 24 vertices, 8 triangles (one in
\* each of the 8 cells sharing the sample), every vertex the midpoint of a
\* grid edge leaving (1,1,1).
C7_EightTriangles ==
  (Extracted /\ CentreSampleField) =>
    /\ Len(meshVertexes) = 24
    /\ \A k \in 1..Len(meshVertexes) : meshVertexes[k] \in CentreCrossings

C7_Witness == Extracted /\ CentreSampleField

\* C8: a second pass of marchCubes over the unmodified field leaves
\* meshVertexes exactly as the first pass left it.
C8_Idempotent ==
  [][(pc = "marchCubes" /\ renders > 1) => meshVertexes' = meshVertexes]_vars

C8_Witness == Extracted /\ renders > 1 /\ meshVertexes # <<>>

\* Bit i of the number c.
Bit(c, i) == (c \div (2 ^ i)) % 2

\* The weight 2^i of corner i when the sample there is above the isovalue.
CornerWeight(x, y, z, i) ==
  IF Above(<<x + Bit(i, 0), y + Bit(i, 1), z + Bit(i, 2)>>) THEN 2 ^ i ELSE 0

\* The configuration code of the cell at (x, y, z): bit i is set exactly
\* when the sample at corner i is above the isovalue.
ConfigurationOf(x, y, z) ==
  CornerWeight(x, y, z, 0) + CornerWeight(x, y, z, 1) + CornerWeight(x, y, z, 2)
    + CornerWeight(x, y, z, 3) + CornerWeight(x, y, z, 4) + CornerWeight(x, y, z, 5)
    + CornerWeight(x, y, z, 6) + CornerWeight(x, y, z, 7)

\* The number of cells along an axis: the integers x >= 0 with x < extent - 1.
CellsAlong(s) ==
  LET p == Extent(s, resolution) IN IF p.n <= p.d THEN 0 ELSE Ceil(p) - 1

\* The edge indices of a table row before its first -1.
RowLength(row) == Cardinality({k \in DOMAIN row : \A j \in 0..k : row[j] # -1})

\* (cell base + midpoint of the endpoints of edge e) / resolution.
ExpectedVertex(x, y, z, e) ==
  LET a == EDGE_ARRAY[e][0]
      b == EDGE_ARRAY[e][1]
      C(base, u, v) == Rat((2 * base + u + v) * resolution.d, 2 * resolution.n)
  IN  Vector3(C(x, a.x, b.x), C(y, a.y, b.y), C(z, a.z, b.z))

\* The vertices of the c-th cell in iteration order (x outermost, z innermost).
ExpectedOfCell(c) ==
  LET cy == CellsAlong(size.y)
      cz == CellsAlong(size.z)
      x == c \div (cy * cz)
      y == (c \div cz) % cy
      z == c % cz
      row == TRIANGLE_TABLE[ConfigurationOf(x, y, z)]
  IN  [k \in 1..RowLength(row) |-> ExpectedVertex(x, y, z, row[k - 1])]

RECURSIVE ExpectedFrom(_)
ExpectedFrom(c) ==
  IF c >= CellsAlong(size.x) * CellsAlong(size.y) * CellsAlong(size.z) THEN <<>>
  ELSE ExpectedOfCell(c) \o ExpectedFrom(c + 1)

C10_MeshIsTheSceneMesh ==
  /\ Cardinality(scene) <= 1
  /\ (pc = "idle" /\ mesh.defined) => (scene = {mesh.id} /\ ~mesh.disposed)

C10_Witness == pc = "idle" /\ mesh.defined /\ renders > 1 /\ frames > 0 /\ error # "none"

====
